---- MODULE Spec2Model ----
(***************************************************************************)
(* Model of the pong drawables of src/src/pong/draw/player.go: the colour  *)
(* blend, Line, Player, Ball, Sinusoid and HSLWheel.                       *)
(*                                                                         *)
(* float64 quantities are modelled as exact rationals over fixed           *)
(* denominators:                                                           *)
(*   time      dt       in ticks, TicksPerSecond ticks to the second       *)
(*   position  (LEDs)   in units of 1/PosDen LED                           *)
(*   velocity           in position units per tick                         *)
(*   phase     (offset) in units of 1/PhaseDen                             *)
(*   hue                in units of 1/HueDen                               *)
(* so every product the code forms (velocity*dt, dt*0.27, dt*0.1) is an    *)
(* integer of the model and no rounding is introduced.                     *)
(***************************************************************************)
EXTENDS Integers, Sequences, FiniteSets, TLC

\* line      a Line          (lines 368-375)
\* player    a Player        (lines 410-416)
\* ball      the Ball        (lines 464-477)
\* sinusoid  the Sinusoid    (lines 527-538); sineLookup is kept as its index set
\* hsl       the HSLWheel    (lines 616-625)
\* call      the call made last: its name, its arguments, its receiver before it
\* out       what that call returned, or the panic it ended in
\* steps     the number of Animate calls made
\* elapsed   the sum of the dt given to HSLWheel.Animate, in ticks
VARIABLES line, player, ball, sinusoid, hsl, call, out, steps, elapsed

vars == <<line, player, ball, sinusoid, hsl, call, out, steps, elapsed>>

(* ------------------------------ bounds -------------------------------- *)

MaxWidth == 4

MaxSteps == 4

TicksPerSecond == 4

(* ------------------------- program constants -------------------------- *)

\* velocity: float64(field.Width()) / 3.0
VelocityDivisor == 3

\* zindex of both paddles
PlayerZIndex == 10

\* zindex of the ball
BallZIndex == 100

\* the rates 0.27, 0.41, 0.59 are Rates[i] / RateDen
RateDen == 100

Rates == <<27, 41, 59>>

\* hue += dt * 0.1, that is dt / HueRateDen
HueRateDen == 10

\* make([]uint8, 256) and int(fieldPercentage*256)
LookupSize == 256

\* the width of a colour channel: uint8, >>8
ChannelBits == 8

ChannelMod == 2 ^ ChannelBits

(* --------------------------- fixed point ------------------------------ *)

PosDen == VelocityDivisor * TicksPerSecond

PhaseDen == RateDen * TicksPerSecond

HueDen == HueRateDen * TicksPerSecond

\* Go's integer division truncates toward zero
TruncDiv(a, b) == IF a >= 0 THEN a \div b ELSE -((-a) \div b)

Abs(x) == IF x < 0 THEN -x ELSE x

(* ------------------------------ colours ------------------------------- *)

RGBA(r, g, b, a) == [R |-> r, G |-> g, B |-> b, A |-> a]

ChanVals == {0, 1, 128, 255}

Colours == [R : ChanVals, G : ChanVals, B : ChanVals, A : ChanVals]

\* x >> 8 on a uint
Shr8(x) == x \div ChannelMod

\* uint8(x)
U8(x) == x % ChannelMod

blend(foreground, background) ==
    LET fr == foreground.R
        fg == foreground.G
        fb == foreground.B
        fa == foreground.A
        br == background.R
        bg == background.G
        bb == background.B
        ba == background.A
        opacity == fa
        backgroundOpacity == Shr8(ba * (255 - fa))
    IN  RGBA(U8(Shr8(fr * opacity) + Shr8(br * backgroundOpacity)),
             U8(Shr8(fg * opacity) + Shr8(bg * backgroundOpacity)),
             U8(Shr8(fb * opacity) + Shr8(bb * backgroundOpacity)),
             U8(opacity))

(* -------------------------------- Line -------------------------------- *)

NewLine(leftEdge, rightEdge, color, zindex) ==
    [leftEdge |-> leftEdge, rightEdge |-> rightEdge, color |-> color, zindex |-> zindex]

\* a mutation of Line.ColorAt: the bounds taken exclusive
LineColorAtExclusive(l, position, baseColor) ==
    IF l.leftEdge < position /\ position < l.rightEdge
    THEN blend(l.color, baseColor)
    ELSE baseColor

LineColorAt(l, position, baseColor) ==
    IF l.leftEdge <= position /\ position <= l.rightEdge
    THEN blend(l.color, baseColor)
    ELSE baseColor

\* the value-type predecessor of Line.ColorAt: exclusive bounds, no blending
ValueLineColorAt(l, position, baseColor) ==
    IF l.leftEdge < position /\ position < l.rightEdge
    THEN l.color
    ELSE baseColor

(* ------------------------------- Player ------------------------------- *)

NewPlayer(isLeft, width) ==
    IF isLeft
    THEN [line |-> NewLine(0, TruncDiv(width, 2) * PosDen, RGBA(255, 0, 0, 200), PlayerZIndex),
          visible |-> FALSE]
    ELSE [line |-> NewLine((TruncDiv(width, 2) + 1) * PosDen, width * PosDen,
                           RGBA(0, 255, 0, 200), PlayerZIndex),
          visible |-> FALSE]

\* a mutation of Player.ColorAt: the visible flag ignored
PlayerColorAtAlways(p, position, baseColor) ==
    LineColorAt(p.line, position, baseColor)

PlayerColorAt(p, position, baseColor) ==
    IF ~p.visible
    THEN baseColor
    ELSE LineColorAt(p.line, position, baseColor)

PlayerUpdateVisible(p, visible) == [p EXCEPT !.visible = visible]

PlayerZ(p) == p.line.zindex

(* -------------------------------- Ball -------------------------------- *)

NewBall(width) ==
    [position |-> 0,
     velocity |-> TruncDiv(width * PosDen, VelocityDivisor * TicksPerSecond),
     maxPosition |-> (width - 1) * PosDen,
     zindex |-> BallZIndex]

\* a mutation of Ball.Animate: the position clamped to the wall instead of mirrored
BallAnimateClamp(b, dt) ==
    LET moved == b.position + b.velocity * dt
    IN  IF moved > b.maxPosition
        THEN [b EXCEPT !.position = b.maxPosition, !.velocity = -b.velocity]
        ELSE IF moved < 0
             THEN [b EXCEPT !.position = 0, !.velocity = -b.velocity]
             ELSE [b EXCEPT !.position = moved]

\* dt in ticks; the state of the ball after Animate(dt)
BallAnimate(b, dt) ==
    LET moved == b.position + b.velocity * dt
    IN  IF moved > b.maxPosition
        THEN [b EXCEPT !.position = b.maxPosition - (moved - b.maxPosition),
                       !.velocity = -b.velocity]
        ELSE IF moved < 0
             THEN [b EXCEPT !.position = -moved, !.velocity = -b.velocity]
             ELSE [b EXCEPT !.position = moved]

(* ------------------------------ Sinusoid ------------------------------ *)

\* the indices of sineLookup as buildLookup allocates it
SineLookupIndices == 0 .. (LookupSize - 1)

NewSinusoid(width, zindex) ==
    [scale |-> width, offsets |-> <<0, 0, 0>>, zindex |-> zindex,
     sineLookup |-> SineLookupIndices]

\* if x > 1 { x -= 1 } on a quantity with denominator den
WrapOnce(x, den) == IF x > den THEN x - den ELSE x

\* the index lookup reads for the phase num/den
lookupIndex(num, den) == TruncDiv(WrapOnce(num, den) * LookupSize, den)

\* the phase fieldPercentage + offsets[i] as a fraction <<num, den>>
SinusoidPhase(s, position, i) ==
    <<position * PhaseDen + s.offsets[i] * PosDen * s.scale, PosDen * s.scale * PhaseDen>>

\* the three reads of ColorAt in order, stopping at the first out of range
SinusoidColorAt(s, position) ==
    LET idx(i) == lookupIndex(SinusoidPhase(s, position, i)[1], SinusoidPhase(s, position, i)[2])
        ok(i) == idx(i) \in s.sineLookup
    IN  IF ~ok(1) THEN [outcome |-> "panic", value |-> <<idx(1)>>]
        ELSE IF ~ok(2) THEN [outcome |-> "panic", value |-> <<idx(1), idx(2)>>]
        ELSE IF ~ok(3) THEN [outcome |-> "panic", value |-> <<idx(1), idx(2), idx(3)>>]
        ELSE [outcome |-> "ok", value |-> <<idx(1), idx(2), idx(3)>>]

SinusoidAnimate(s, dt) ==
    [s EXCEPT !.offsets = [i \in 1..3 |-> WrapOnce(s.offsets[i] + dt * Rates[i], PhaseDen)]]

(* ------------------------------ HSLWheel ------------------------------ *)

NewHSLWheel(width, zindex) == [scale |-> width, hue |-> 0, zindex |-> zindex]

HSLWheelAnimate(h, dt) == [h EXCEPT !.hue = WrapOnce(h.hue + dt, HueDen)]

(* ------------------------------- inputs ------------------------------- *)

Widths == 1 .. MaxWidth

\* dt > 0 in ticks: a tick, half a second... up to 25 seconds
PositiveDts == {1, 2, TicksPerSecond, 10 * TicksPerSecond, 25 * TicksPerSecond}

AnyDts == PositiveDts \cup {0} \cup {-d : d \in PositiveDts}

\* positions on and next to every LED boundary of the widest field
Positions == {k * PosDen + e : k \in -1 .. (MaxWidth + 1), e \in {-1, 0, 1}}

Bases == {RGBA(0, 0, 0, 0), RGBA(255, 255, 255, 255), RGBA(10, 200, 30, 128)}

LineColours == {RGBA(255, 0, 0, 200), RGBA(0, 0, 255, 255)}

NoCall == [op |-> "none", args |-> <<>>, pre |-> <<>>]

NoOut == [outcome |-> "none", value |-> <<>>]

Ok(v) == [outcome |-> "ok", value |-> v]

\* the scene built from one field of the given width, and a free-standing line
InitScene(width, isLeft, l) ==
    /\ line = l
    /\ player = NewPlayer(isLeft, width)
    /\ ball = NewBall(width)
    /\ sinusoid = NewSinusoid(width, 0)
    /\ hsl = NewHSLWheel(width, 0)
    /\ call = NoCall
    /\ out = NoOut
    /\ steps = 0
    /\ elapsed = 0

DefaultLine == NewLine(0, MaxWidth * PosDen, RGBA(255, 0, 0, 200), PlayerZIndex)

(* ------------------------------- actions ------------------------------ *)

\* the pending call blend(foreground, background) returns
Blend ==
    /\ call.op = "blend"
    /\ out = NoOut
    /\ out' = Ok(blend(call.args[1], call.args[2]))
    /\ UNCHANGED <<line, player, ball, sinusoid, hsl, call, steps, elapsed>>

CallLineColorAt(position, baseColor) ==
    /\ call' = [op |-> "Line.ColorAt", args |-> <<position, baseColor>>, pre |-> line]
    /\ out' = Ok(LineColorAt(line, position, baseColor))
    /\ UNCHANGED <<line, player, ball, sinusoid, hsl, steps, elapsed>>

CallLineAnimate(dt) ==
    /\ steps < MaxSteps
    /\ call' = [op |-> "Line.Animate", args |-> <<dt>>, pre |-> line]
    /\ out' = Ok(TRUE)
    /\ steps' = steps + 1
    /\ UNCHANGED <<line, player, ball, sinusoid, hsl, elapsed>>

CallPlayerUpdateVisible(visible) ==
    /\ call' = [op |-> "Player.UpdateVisible", args |-> <<visible>>, pre |-> player]
    /\ player' = PlayerUpdateVisible(player, visible)
    /\ out' = NoOut
    /\ UNCHANGED <<line, ball, sinusoid, hsl, steps, elapsed>>

CallPlayerColorAt(position, baseColor) ==
    /\ call' = [op |-> "Player.ColorAt", args |-> <<position, baseColor>>, pre |-> player]
    /\ out' = Ok(PlayerColorAt(player, position, baseColor))
    /\ UNCHANGED <<line, player, ball, sinusoid, hsl, steps, elapsed>>

CallPlayerAnimate(dt) ==
    /\ steps < MaxSteps
    /\ call' = [op |-> "Player.Animate", args |-> <<dt>>, pre |-> player]
    /\ out' = Ok(TRUE)
    /\ steps' = steps + 1
    /\ UNCHANGED <<line, player, ball, sinusoid, hsl, elapsed>>

CallBallAnimate(dt) ==
    /\ steps < MaxSteps
    /\ call' = [op |-> "Ball.Animate", args |-> <<dt>>, pre |-> ball]
    /\ ball' = BallAnimate(ball, dt)
    /\ out' = Ok(TRUE)
    /\ steps' = steps + 1
    /\ UNCHANGED <<line, player, sinusoid, hsl, elapsed>>

CallSinusoidAnimate(dt) ==
    /\ steps < MaxSteps
    /\ call' = [op |-> "Sinusoid.Animate", args |-> <<dt>>, pre |-> sinusoid]
    /\ sinusoid' = SinusoidAnimate(sinusoid, dt)
    /\ out' = Ok(TRUE)
    /\ steps' = steps + 1
    /\ UNCHANGED <<line, player, ball, hsl, elapsed>>

CallSinusoidColorAt(position) ==
    /\ call' = [op |-> "Sinusoid.ColorAt", args |-> <<position>>, pre |-> sinusoid]
    /\ out' = SinusoidColorAt(sinusoid, position)
    /\ UNCHANGED <<line, player, ball, sinusoid, hsl, steps, elapsed>>

CallHSLWheelAnimate(dt) ==
    /\ steps < MaxSteps
    /\ call' = [op |-> "HSLWheel.Animate", args |-> <<dt>>, pre |-> hsl]
    /\ hsl' = HSLWheelAnimate(hsl, dt)
    /\ out' = Ok(TRUE)
    /\ steps' = steps + 1
    /\ elapsed' = elapsed + dt
    /\ UNCHANGED <<line, player, ball, sinusoid>>

\* the constructors, each called on the fresh scene; each returns its object,
\* whatever its arguments
CallNewLine(leftEdge, rightEdge, color) ==
    /\ call = NoCall
    /\ call' = [op |-> "NewLine", args |-> <<leftEdge, rightEdge>>, pre |-> <<>>]
    /\ line' = NewLine(leftEdge, rightEdge, color, PlayerZIndex)
    /\ out' = Ok(line')
    /\ UNCHANGED <<player, ball, sinusoid, hsl, steps, elapsed>>

CallNewPlayer(isLeft, width) ==
    /\ call = NoCall
    /\ call' = [op |-> "NewPlayer", args |-> <<width, isLeft>>, pre |-> <<>>]
    /\ player' = NewPlayer(isLeft, width)
    /\ out' = Ok(player')
    /\ UNCHANGED <<line, ball, sinusoid, hsl, steps, elapsed>>

CallNewBall(width) ==
    /\ call = NoCall
    /\ call' = [op |-> "NewBall", args |-> <<width>>, pre |-> <<>>]
    /\ ball' = NewBall(width)
    /\ out' = Ok(ball')
    /\ UNCHANGED <<line, player, sinusoid, hsl, steps, elapsed>>

CallNewSinusoid(width) ==
    /\ call = NoCall
    /\ call' = [op |-> "NewSinusoid", args |-> <<width>>, pre |-> <<>>]
    /\ sinusoid' = NewSinusoid(width, 0)
    /\ out' = Ok(sinusoid')
    /\ UNCHANGED <<line, player, ball, hsl, steps, elapsed>>

CallNewHSLWheel(width) ==
    /\ call = NoCall
    /\ call' = [op |-> "NewHSLWheel", args |-> <<width>>, pre |-> <<>>]
    /\ hsl' = NewHSLWheel(width, 0)
    /\ out' = Ok(hsl')
    /\ UNCHANGED <<line, player, ball, sinusoid, steps, elapsed>>

(* ---------------------------- specifications -------------------------- *)

\* blend called with every pair of colours over ChanVals
InitBlend ==
    \E f \in Colours, b \in Colours :
        /\ line = DefaultLine
        /\ player = NewPlayer(TRUE, MaxWidth)
        /\ ball = NewBall(MaxWidth)
        /\ sinusoid = NewSinusoid(MaxWidth, 0)
        /\ hsl = NewHSLWheel(MaxWidth, 0)
        /\ call = [op |-> "blend", args |-> <<f, b>>, pre |-> <<>>]
        /\ out = NoOut
        /\ steps = 0
        /\ elapsed = 0

NextBlend == Blend

SpecBlend == InitBlend /\ [][NextBlend]_vars

\* a line of any edges, queried and animated
InitLine ==
    \E l \in 0 .. MaxWidth, r \in 0 .. MaxWidth, c \in LineColours :
        InitScene(MaxWidth, TRUE, NewLine(l * PosDen, r * PosDen, c, PlayerZIndex))

NextLine ==
    \/ \E p \in Positions, b \in Bases : CallLineColorAt(p, b)
    \/ \E dt \in PositiveDts : CallLineAnimate(dt)

SpecLine == InitLine /\ [][NextLine]_vars

\* a paddle of either side
InitPlayer == \E w \in Widths, isLeft \in BOOLEAN : InitScene(w, isLeft, DefaultLine)

NextPlayer ==
    \/ \E v \in BOOLEAN : CallPlayerUpdateVisible(v)
    \/ \E p \in Positions, b \in Bases : CallPlayerColorAt(p, b)
    \/ \E dt \in PositiveDts : CallPlayerAnimate(dt)

SpecPlayer == InitPlayer /\ [][NextPlayer]_vars

\* the ball animated by positive steps
InitBall == \E w \in Widths : InitScene(w, TRUE, DefaultLine)

NextBall == \E dt \in PositiveDts : CallBallAnimate(dt)

SpecBall == InitBall /\ [][NextBall]_vars

\* the ball animated by steps of any sign
NextBallAnyDt == \E dt \in AnyDts : CallBallAnimate(dt)

SpecBallAnyDt == InitBall /\ [][NextBallAnyDt]_vars

\* the sinusoid animated by positive steps and rendered on the strip
InitSinusoid == \E w \in Widths : InitScene(w, TRUE, DefaultLine)

NextSinusoid ==
    \/ \E dt \in PositiveDts : CallSinusoidAnimate(dt)
    \/ \E k \in 0 .. (MaxWidth - 1), e \in {0, 1, PosDen - 1} :
          /\ k < sinusoid.scale
          /\ CallSinusoidColorAt(k * PosDen + e)

SpecSinusoid == InitSinusoid /\ [][NextSinusoid]_vars

\* the hue wheel animated by positive steps
InitHSLWheel == \E w \in Widths : InitScene(w, TRUE, DefaultLine)

NextHSLWheel == \E dt \in PositiveDts : CallHSLWheelAnimate(dt)

SpecHSLWheel == InitHSLWheel /\ [][NextHSLWheel]_vars

\* the constructors called with any width and any edges
InitConstruct == InitScene(MaxWidth, TRUE, DefaultLine)

NextConstruct ==
    \/ \E l \in -2 .. MaxWidth, r \in -2 .. MaxWidth, c \in LineColours :
          CallNewLine(l * PosDen, r * PosDen, c)
    \/ \E isLeft \in BOOLEAN, w \in -2 .. MaxWidth : CallNewPlayer(isLeft, w)
    \/ \E w \in -2 .. MaxWidth : CallNewBall(w)
    \/ \E w \in -2 .. MaxWidth : CallNewSinusoid(w)
    \/ \E w \in -2 .. MaxWidth : CallNewHSLWheel(w)

SpecConstruct == InitConstruct /\ [][NextConstruct]_vars

(* ------------------------------- claims ------------------------------- *)

InField(b) == 0 <= b.position /\ b.position <= b.maxPosition

\* C1: after every Ball.Animate(dt) with dt > 0, from a ball inside the field,
\* 0 <= position <= maxPosition, however large dt is.
BallBoundaryInvariant == InField(ball)

\* C2: blend(c, base) with c.A = 0 returns base unchanged in R, G, B and A.
BlendIdentity ==
    (call.op = "blend" /\ out.outcome = "ok" /\ call.args[1].A = 0)
        => out.value = call.args[2]

\* C3: blend(c, base) with c.A = 255 returns R, G, B equal to c's and alpha 255.
BlendSaturation ==
    (call.op = "blend" /\ out.outcome = "ok" /\ call.args[1].A = 255)
        => /\ out.value.R = call.args[1].R
           /\ out.value.G = call.args[1].G
           /\ out.value.B = call.args[1].B
           /\ out.value.A = 255

\* what C4 expects of a line with edges [L, R] and colour C at position p over base
Contained(l, p, base) ==
    IF l.leftEdge <= p /\ p <= l.rightEdge THEN blend(l.color, base) ELSE base

PlayerVisibility ==
    /\ \A p \in Positions, b \in Bases :
          PlayerColorAt(player, p, b) =
              IF player.visible THEN Contained(player.line, p, b) ELSE b
    /\ call.op = "Player.ColorAt"
          => out.value = IF player.visible
                         THEN Contained(player.line, call.args[1], call.args[2])
                         ELSE call.args[2]
    /\ call.op = "Player.Animate" => player = call.pre
    /\ call.op = "Player.UpdateVisible"
          => /\ player.line = call.pre.line
             /\ player.visible = call.args[1]

\* C5 witness: after an Animate, an invisible player queried inside its paddle,
\* where the line would have changed the colour, returns base
PlayerVisibilityWitness ==
    /\ call.op = "Player.ColorAt"
    /\ steps > 0
    /\ ~player.visible
    /\ player.line.leftEdge <= call.args[1]
    /\ call.args[1] <= player.line.rightEdge
    /\ blend(player.line.color, call.args[2]) # call.args[2]
    /\ out.value = call.args[2]

\* the unreflected position of the Animate call that was made last
Unreflected == call.pre.position + call.pre.velocity * call.args[1]

\* C6: an overshoot D past maxPosition with 0 < D <= maxPosition ends at
\* maxPosition - D with the velocity negated; an undershoot D below 0 ends at D
\* with the velocity negated; a step that stays inside leaves the velocity
\* alone; and |velocity| is always the value NewBall gave it.
BallMirrorReflection ==
    /\ call.op = "Ball.Animate" =>
          LET max == call.pre.maxPosition
              over == Unreflected - max
              under == -Unreflected
          IN  /\ (0 < over /\ over <= max)
                    => /\ ball.position = max - over
                       /\ ball.velocity = -call.pre.velocity
              /\ (0 < under /\ under <= max)
                    => /\ ball.position = under
                       /\ ball.velocity = -call.pre.velocity
              /\ (0 <= Unreflected /\ Unreflected <= max)
                    => ball.velocity = call.pre.velocity
    /\ \E w \in Widths :
          /\ ball.maxPosition = NewBall(w).maxPosition
          /\ Abs(ball.velocity) = Abs(NewBall(w).velocity)

\* C6 witness: a step that overshot the far wall by D, 0 < D <= maxPosition,
\* and landed D inside it, moving back
BallMirrorReflectionWitness ==
    /\ call.op = "Ball.Animate"
    /\ call.args[1] > 0
    /\ 0 < Unreflected - ball.maxPosition
    /\ Unreflected - ball.maxPosition <= ball.maxPosition
    /\ ball.position = ball.maxPosition - (Unreflected - ball.maxPosition)
    /\ ball.position < ball.maxPosition
    /\ ball.velocity < 0

RejectedArguments ==
    \/ /\ call.op \in {"NewPlayer", "NewBall", "NewSinusoid", "NewHSLWheel"}
       /\ call.args[1] <= 0
    \/ /\ call.op = "NewLine"
       /\ call.args[1] > call.args[2]

\* C7: a constructor given a width <= 0, or NewLine given leftEdge > rightEdge,
\* ends in an error instead of returning an object.
ConstructionRejects == RejectedArguments => out.outcome = "error"

\* C8: the three offsets are in [0,1) after every Animate, and every ColorAt
\* on the strip reads sineLookup at indices 0..255 only.
SinusoidLookupInBounds ==
    /\ \A i \in 1..3 : 0 <= sinusoid.offsets[i] /\ sinusoid.offsets[i] < PhaseDen
    /\ call.op = "Sinusoid.ColorAt"
          => /\ out.outcome = "ok"
             /\ \A i \in 1..Len(out.value) : out.value[i] \in 0 .. (LookupSize - 1)

\* C9: after every HSLWheel.Animate the hue is the accumulated dt*0.1 modulo 1
\* and 0 <= hue < 1.
HueWrapped ==
    /\ hsl.hue = elapsed % HueDen
    /\ 0 <= hsl.hue
    /\ hsl.hue < HueDen

\* C10: from a ball inside the field, Animate(0) changes neither position nor
\* velocity and Animate(dt) with dt < 0 leaves the ball inside the field.
BallNonPositiveDt ==
    (call.op = "Ball.Animate" /\ InField(call.pre))
        => /\ call.args[1] = 0 => ball = call.pre
           /\ call.args[1] < 0 => InField(ball)

====
